---- MODULE Spec2Model ----
(***************************************************************************)
(* Model of blenderplot/__init__.py: mesh_from_tri, add_vertex_colors,     *)
(* add_vertex_colors_and_material, the _ensure_filename wrapper and        *)
(* render_tri, run against an abstract host scene (root collection with    *)
(* child collections and directly linked objects, render settings, the    *)
(* render operator) and an abstract file system / caller stream.           *)
(***************************************************************************)
EXTENDS Integers, Sequences, FiniteSets, TLC

VARIABLES
    pc,          \* position of the single (synchronous) caller inside render_tri
    callNo,      \* how many render_tri calls have been started
    args,        \* arguments of the current call
    children,    \* scene.collection.children, in host order
    objects,     \* scene.collection.objects (objects linked into the root collection)
    sceneCamera, \* scene.camera
    render,      \* scene.render: engine, resolution_x, resolution_y, filepath
    it,          \* position of the iterator of the 'Clear the scene' loop
    mesh,        \* local variable mesh of render_tri
    blocks,      \* data-blocks created in bpy.data by the current call
    files,       \* content of the caller's output path and of tmpdir/out.png
    tmpdir,      \* whether the wrapper's TemporaryDirectory exists
    stream,      \* payloads passed to output.write of the caller's stream
    result,      \* how the current call ended: "none" while running, "ok", or the error
    log          \* steps the current call has executed, in order

vars == <<pc, callNo, args, children, objects, sceneCamera, render, it, mesh,
          blocks, files, tmpdir, stream, result, log>>

(***************************************************************************)
(* Bounds.                                                                 *)
(***************************************************************************)
MaxCalls == 2
MaxChildren == 3

(***************************************************************************)
(* Array-like inputs.  form "none" is None, "seq" a nested Python          *)
(* sequence, "array" a numpy array.  depth 1: a flat sequence rows[1];     *)
(* depth 2: a sequence of rows; depth 3: every scalar wrapped in a         *)
(* one-element sequence.                                                   *)
(***************************************************************************)
In(form, depth, rows) == [form |-> form, depth |-> depth, rows |-> rows]

None == In("none", 1, <<>>)

VerticesInputs ==
    { In("seq", 2, << <<0, 0, 0>>, <<1, 0, 0>>, <<0, 1, 0>> >>),   \* 3 x 3
      In("seq", 1, << <<0, 0, 0>> >>),                             \* ndim 1
      In("seq", 2, << <<0, 0>>, <<1, 0>>, <<0, 1>> >>),            \* 3 x 2
      In("seq", 3, << <<0, 0, 0>> >>),                             \* 1 x 3 x 1
      In("seq", 2, << <<0, 0, 0>>, <<1, 0>> >>) }                  \* ragged

TrianglesInputs ==
    { In("seq", 2, << <<0, 1, 2>> >>),                             \* 1 x 3
      In("seq", 2, << <<0, 1, 2, 0>> >>),                          \* 1 x 4
      In("seq", 1, << <<0, 1, 2>> >>) }                            \* ndim 1

Red == <<1, 0, 0, 1>>
Green == <<0, 1, 0, 1>>
Blue == <<0, 0, 1, 1>>

ColorsInputs ==
    { None,
      In("seq", 2, <<Red, Green, Blue>>),                          \* N x 4
      In("array", 2, <<Red, Green, Blue>>),                        \* N x 4, numpy
      In("seq", 2, <<Red, Green>>),                                \* fewer rows than vertices
      In("seq", 2, <<Red, Green, Blue, Red>>),                     \* more rows than vertices
      In("seq", 2, << <<1, 0, 0>>, <<0, 1, 0>>, <<0, 0, 1>> >>),   \* N x 3
      In("seq", 2, <<>>),                                          \* []
      In("seq", 1, <<Red>>) }                                      \* ndim 1

VerticesOK == In("seq", 2, << <<0, 0, 0>>, <<1, 0, 0>>, <<0, 1, 0>> >>)
TrianglesOK == In("seq", 2, << <<0, 1, 2>> >>)

\* The (vertices, triangles, colors) triples a call is given: every colors
\* input on a well-formed mesh, and every vertices/triangles pair without colors.
Geometries ==
    {<<VerticesOK, TrianglesOK, c>> : c \in ColorsInputs}
    \cup {<<v, t, None>> : v \in VerticesInputs, t \in TrianglesInputs}

Renderers == {"CYCLES", "BLENDER_EEVEE"}
Resolutions == {<<800, 600>>, <<4, 2>>}
Modes == {"path", "stream"}

UserPath == "out.png"
TmpPath == "tmpdir/out.png"

(***************************************************************************)
(* numpy.asarray: whether the conversion succeeds, and the shape it gives. *)
(***************************************************************************)
Converts(a) ==
    \/ a.form # "seq"
    \/ a.depth # 2
    \/ \A i \in 1..Len(a.rows) : Len(a.rows[i]) = Len(a.rows[1])

Shape(a) ==
    IF a.depth = 1 THEN <<Len(a.rows[1])>>
    ELSE IF a.rows = <<>> THEN <<0>>
    ELSE IF a.depth = 2 THEN <<Len(a.rows), Len(a.rows[1])>>
    ELSE <<Len(a.rows), Len(a.rows[1]), 1>>

Ndim(a) == Len(Shape(a))

(***************************************************************************)
(* mesh_from_tri: conversion, shape assertion, then the host data-blocks.  *)
(***************************************************************************)
\* Variant of MeshShapeOK: the assertion without its conditions on triangles.
MeshShapeLax(v, t) ==
    Ndim(v) = 2 /\ Shape(v)[2] = 3

MeshShapeOK(v, t) ==
    Ndim(v) = 2 /\ Ndim(t) = 2 /\ Shape(v)[2] = 3 /\ Shape(t)[2] = 3

MeshFromTriOutcome(v, t) ==
    IF ~Converts(v) \/ ~Converts(t) THEN "ValueError"
    ELSE IF ~MeshShapeOK(v, t) THEN "AssertionError"
    ELSE "ok"

Obj(kind, call, nverts, attr, mat) ==
    [kind |-> kind, call |-> call, nverts |-> nverts, attr |-> attr, mat |-> mat]

NoObj == Obj("none", 0, 0, <<>>, FALSE)

MeshObj(call, v) == Obj("mesh", call, Shape(v)[1], <<>>, FALSE)
CameraObj(call) == Obj("camera", call, 0, <<>>, FALSE)
LightObj(call) == Obj("light", call, 0, <<>>, FALSE)

(***************************************************************************)
(* 'if colors:' -- the truth value Python computes for the colors input.   *)
(***************************************************************************)
ArraySize(a) ==
    IF Ndim(a) = 1 THEN Shape(a)[1]
    ELSE IF Ndim(a) = 2 THEN Shape(a)[1] * Shape(a)[2]
    ELSE Shape(a)[1] * Shape(a)[2] * Shape(a)[3]

TopLen(a) == IF a.depth = 1 THEN Len(a.rows[1]) ELSE Len(a.rows)

Truth(c) ==
    IF c.form = "none" THEN "false"
    ELSE IF c.form = "seq" THEN (IF TopLen(c) > 0 THEN "true" ELSE "false")
    ELSE IF ArraySize(c) > 1 THEN "ValueError"
    ELSE IF ArraySize(c) = 0 THEN "false"
    ELSE IF c.rows[1][1] # 0 THEN "true" ELSE "false"

(***************************************************************************)
(* add_vertex_colors: conversion, shape assertion, new POINT attribute     *)
(* (one default entry per vertex), then attr.data[i].color = color for     *)
(* every input row i.                                                      *)
(***************************************************************************)
DefaultColor == <<1, 1, 1, 1>>

ColorsShapeOK(c) == Ndim(c) = 2 /\ Shape(c)[2] = 4

Assigned(nverts, c) ==
    [i \in 1..nverts |-> IF i <= Len(c.rows) THEN c.rows[i] ELSE DefaultColor]

AddVertexColors(nverts, c) ==
    IF ~Converts(c) THEN [err |-> "ValueError", created |-> FALSE, attr |-> <<>>]
    ELSE IF ~ColorsShapeOK(c) THEN [err |-> "AssertionError", created |-> FALSE, attr |-> <<>>]
    ELSE [err |-> IF Len(c.rows) > nverts THEN "IndexError" ELSE "ok",
          created |-> TRUE,
          attr |-> Assigned(nverts, c)]

(***************************************************************************)
(* Files, images and the render settings.                                  *)
(***************************************************************************)
NoFile == [exists |-> FALSE, data |-> <<>>]
File(img) == [exists |-> TRUE, data |-> <<img>>]

\* Variant of ReadAll: a read that stops before the content (src.read(0)).
ReadPartial(f) == <<>>

ReadAll(f) == f.data

Output(a) == IF a.mode = "path" THEN UserPath ELSE TmpPath

ImageOf(objs, kids, cam, r) ==
    [objs |-> objs, kids |-> {kids[i] : i \in 1..Len(kids)}, cam |-> cam,
     engine |-> r.engine, res |-> <<r.resolution_x, r.resolution_y>>]

\* Variant of ApplyRenderSettings: resolution_x and resolution_y exchanged.
SwappedRenderSettings(r, a) ==
    [engine |-> "CYCLES", resolution_x |-> a.res[2], resolution_y |-> a.res[1],
     filepath |-> Output(a)]

ApplyRenderSettings(r, a) ==
    [engine |-> "CYCLES", resolution_x |-> a.res[1], resolution_y |-> a.res[2],
     filepath |-> Output(a)]

NoArgs ==
    [mode |-> "path", vertices |-> None, triangles |-> None, colors |-> None,
     renderer |-> "CYCLES", res |-> <<800, 600>>]

Remove(s, i) == [j \in 1..(Len(s) - 1) |-> IF j < i THEN s[j] ELSE s[j + 1]]

(***************************************************************************)
(* Initial state: a host scene whose root collection holds 0..MaxChildren  *)
(* child collections and no directly linked object.                        *)
(***************************************************************************)
Init ==
    /\ pc = "idle"
    /\ callNo = 0
    /\ args = NoArgs
    /\ \E n \in 0..MaxChildren : children = [i \in 1..n |-> i]
    /\ objects = {}
    /\ sceneCamera = NoObj
    /\ \E e \in Renderers :
          render = [engine |-> e, resolution_x |-> 1920, resolution_y |-> 1080,
                    filepath |-> "/tmp/"]
    /\ it = 1
    /\ mesh = NoObj
    /\ blocks = {}
    /\ files = [p \in {UserPath, TmpPath} |-> NoFile]
    /\ tmpdir = FALSE
    /\ stream = <<>>
    /\ result = "none"
    /\ log = <<>>

(***************************************************************************)
(* _ensure_filename.wrapper: entry, error exit and the copy to the stream. *)
(***************************************************************************)
Call ==
    /\ pc = "idle"
    /\ callNo < MaxCalls
    /\ \E m \in Modes, g \in Geometries, r \in Renderers, res \in Resolutions :
          args' = [mode |-> m, vertices |-> g[1], triangles |-> g[2], colors |-> g[3],
                   renderer |-> r, res |-> res]
    /\ callNo' = callNo + 1
    /\ tmpdir' = (args'.mode = "stream")
    /\ pc' = "clear"
    /\ it' = 1
    /\ UNCHANGED <<children, objects, sceneCamera, render, mesh, blocks, files,
                   stream, result, log>>

\* The call is over: its result has reached the caller, the locals of
\* render_tri are gone, and the next call gets a fresh path or stream.
Return ==
    /\ pc = "done"
    /\ pc' = "idle"
    /\ args' = NoArgs
    /\ it' = 1
    /\ mesh' = NoObj
    /\ blocks' = {}
    /\ files' = [p \in {UserPath, TmpPath} |-> NoFile]
    /\ stream' = <<>>
    /\ result' = "none"
    /\ log' = <<>>
    /\ UNCHANGED <<callNo, children, objects, sceneCamera, render, tmpdir>>

PropagatedError(err) == err

\* Variant of TmpdirAfterExit: a temporary directory that is never cleaned up.
KeptTmpdir(exists) == exists

TmpdirAfterExit(exists) == FALSE

\* An exception leaving render_tri: through the wrapper (and its with-block
\* in stream mode) to the caller.
Raise(err, step) ==
    /\ pc' = "done"
    /\ result' = PropagatedError(err)
    /\ tmpdir' = TmpdirAfterExit(tmpdir)
    /\ files' = [files EXCEPT ![TmpPath] = IF tmpdir' THEN @ ELSE NoFile]
    /\ log' = Append(log, step)

Copy ==
    /\ pc = "copy"
    /\ IF files[TmpPath].exists
       THEN /\ stream' = Append(stream, ReadAll(files[TmpPath]))
            /\ pc' = "done"
            /\ result' = "ok"
            /\ tmpdir' = TmpdirAfterExit(tmpdir)
            /\ files' = [files EXCEPT ![TmpPath] = IF tmpdir' THEN @ ELSE NoFile]
            /\ log' = Append(log, "write")
       ELSE /\ Raise("FileNotFoundError", "open")
            /\ UNCHANGED stream
    /\ UNCHANGED <<callNo, args, children, objects, sceneCamera, render, it, mesh, blocks>>

(***************************************************************************)
(* render_tri, step by step.                                               *)
(***************************************************************************)

\* Variant of StepAfter: the mesh is linked before its colors are attached.
StepAfterLinkFirst(p) ==
    CASE p = "clear"    -> "mesh"
      [] p = "mesh"     -> "link"
      [] p = "link"     -> "colors"
      [] p = "colors"   -> "camera"
      [] p = "camera"   -> "light"
      [] p = "light"    -> "settings"
      [] p = "settings" -> "render"

\* The statements of render_tri in program order: the step that follows p.
StepAfter(p) ==
    CASE p = "clear"    -> "mesh"
      [] p = "mesh"     -> "colors"
      [] p = "colors"   -> "link"
      [] p = "link"     -> "camera"
      [] p = "camera"   -> "light"
      [] p = "light"    -> "settings"
      [] p = "settings" -> "render"

\* 'for c in scene.collection.children: scene.collection.children.unlink(c)'.
\* The loop unlinks the element the iterator stands on, which frees the
\* host's link for it; the iterator then advances from that freed link.
\* What it finds there is not defined: the old successor ("intact"), the
\* element after the successor ("skip"), or the end of the list ("stop").
Advances == {"intact", "skip", "stop"}

AdvanceIterator(i, n, how) ==
    IF how = "intact" THEN i
    ELSE IF how = "skip" THEN i + 1
    ELSE n + 1

ClearStep ==
    /\ pc = "clear"
    /\ it <= Len(children)
    /\ children' = Remove(children, it)
    /\ \E how \in Advances : it' = AdvanceIterator(it, Len(children'), how)
    /\ log' = Append(log, "unlink")
    /\ UNCHANGED <<pc, callNo, args, objects, sceneCamera, render, mesh, blocks,
                   files, tmpdir, stream, result>>

ClearEnd ==
    /\ pc = "clear"
    /\ it > Len(children)
    /\ pc' = StepAfter("clear")
    /\ log' = Append(log, "cleared")
    /\ UNCHANGED <<callNo, args, children, objects, sceneCamera, render, it, mesh,
                   blocks, files, tmpdir, stream, result>>

\* mesh = mesh_from_tri('mesh', vertices, triangles)
MeshFromTri ==
    /\ pc = "mesh"
    /\ LET out == MeshFromTriOutcome(args.vertices, args.triangles) IN
       IF out = "ok"
       THEN /\ mesh' = MeshObj(callNo, args.vertices)
            /\ blocks' = blocks \cup {"mesh", "mesh_object"}
            /\ pc' = StepAfter("mesh")
            /\ log' = Append(log, "mesh_from_tri")
            /\ UNCHANGED <<files, tmpdir, result>>
       ELSE /\ Raise(out, "mesh_from_tri")
            /\ UNCHANGED <<mesh, blocks>>
    /\ UNCHANGED <<callNo, args, children, objects, sceneCamera, render, it, stream>>

\* 'if colors: add_vertex_colors_and_material(mesh, 'Col', colors)'
AddColors ==
    /\ pc = "colors"
    /\ LET truth == Truth(args.colors)
           avc   == AddVertexColors(mesh.nverts, args.colors) IN
       IF truth = "false"
       THEN /\ pc' = StepAfter("colors")
            /\ log' = Append(log, "no_colors")
            /\ UNCHANGED <<mesh, blocks, files, tmpdir, result>>
       ELSE IF truth = "ValueError"
       THEN /\ Raise("ValueError", "if_colors")
            /\ UNCHANGED <<mesh, blocks>>
       ELSE IF avc.err # "ok"
       THEN /\ Raise(avc.err, "add_vertex_colors")
            /\ mesh' = IF avc.created THEN [mesh EXCEPT !.attr = avc.attr] ELSE mesh
            /\ blocks' = IF avc.created THEN blocks \cup {"color_attribute"} ELSE blocks
       ELSE /\ mesh' = [mesh EXCEPT !.attr = avc.attr, !.mat = TRUE]
            /\ blocks' = blocks \cup {"color_attribute", "material"}
            /\ pc' = StepAfter("colors")
            /\ log' = Append(log, "add_vertex_colors_and_material")
            /\ UNCHANGED <<files, tmpdir, result>>
    /\ UNCHANGED <<callNo, args, children, objects, sceneCamera, render, it, stream>>

\* scene.collection.objects.link(mesh)
LinkMesh ==
    /\ pc = "link"
    /\ objects' = objects \cup {mesh}
    /\ pc' = StepAfter("link")
    /\ log' = Append(log, "link_mesh")
    /\ UNCHANGED <<callNo, args, children, sceneCamera, render, it, mesh, blocks,
                   files, tmpdir, stream, result>>

\* '## Add a camera.'
AddCamera ==
    /\ pc = "camera"
    /\ blocks' = blocks \cup {"camera", "camera_object"}
    /\ objects' = objects \cup {CameraObj(callNo)}
    /\ sceneCamera' = CameraObj(callNo)
    /\ pc' = StepAfter("camera")
    /\ log' = Append(log, "camera")
    /\ UNCHANGED <<callNo, args, children, render, it, mesh, files, tmpdir, stream, result>>

\* '# Add a light source.'
AddLight ==
    /\ pc = "light"
    /\ blocks' = blocks \cup {"light", "light_object"}
    /\ objects' = objects \cup {LightObj(callNo)}
    /\ pc' = StepAfter("light")
    /\ log' = Append(log, "light")
    /\ UNCHANGED <<callNo, args, children, sceneCamera, render, it, mesh, files,
                   tmpdir, stream, result>>

\* '# Render.': the assignments to scene.render
Settings ==
    /\ pc = "settings"
    /\ render' = ApplyRenderSettings(render, args)
    /\ pc' = StepAfter("settings")
    /\ log' = Append(log, "settings")
    /\ UNCHANGED <<callNo, args, children, objects, sceneCamera, it, mesh, blocks,
                   files, tmpdir, stream, result>>

\* bpy.ops.render.render(write_still = True), returning normally
Render ==
    /\ pc = "render"
    /\ files' = [files EXCEPT ![render.filepath] =
                    File(ImageOf(objects, children, sceneCamera, render))]
    /\ log' = Append(log, "render")
    /\ IF args.mode = "path"
       THEN pc' = "done" /\ result' = "ok"
       ELSE pc' = "copy" /\ UNCHANGED result
    /\ UNCHANGED <<callNo, args, children, objects, sceneCamera, render, it, mesh,
                   blocks, tmpdir, stream>>

\* A host API call raises.  mesh_from_tri and add_vertex_colors_and_material
\* reach their first host call only after their conversions and assertions.
HostCallPending ==
    \/ pc \in {"link", "camera", "light", "settings", "render"}
    \/ pc = "mesh" /\ MeshFromTriOutcome(args.vertices, args.triangles) = "ok"
    \/ pc = "colors" /\ Truth(args.colors) = "true"
                     /\ AddVertexColors(mesh.nverts, args.colors).created

HostRaise ==
    /\ HostCallPending
    /\ Raise("HostError", "host_raise")
    /\ UNCHANGED <<callNo, args, children, objects, sceneCamera, render, it, mesh,
                   blocks, stream>>

Next ==
    \/ Call
    \/ Return
    \/ ClearStep
    \/ ClearEnd
    \/ MeshFromTri
    \/ AddColors
    \/ LinkMesh
    \/ AddCamera
    \/ AddLight
    \/ Settings
    \/ Render
    \/ Copy
    \/ HostRaise

Spec == Init /\ [][Next]_vars

(***************************************************************************)
(* Properties.                                                             *)
(***************************************************************************)
InLog(x) == \E i \in 1..Len(log) : log[i] = x
Count(x) == Cardinality({i \in 1..Len(log) : log[i] = x})
LastStep == IF log = <<>> THEN "" ELSE log[Len(log)]
ThisCall == {mesh, CameraObj(callNo), LightObj(callNo)}
Rendered == ImageOf(objects, children, sceneCamera, render)

\* C1: a successful stream-mode call has passed the stream, in exactly one
\* write made after the render operator returned, the full content of the
\* image file the render operator produced -- the same content a successful
\* path-mode call leaves at its output path.
C1_StreamGetsRenderedFile ==
    (pc = "done" /\ result = "ok") =>
        IF args.mode = "stream"
        THEN /\ stream = << <<Rendered>> >>
             /\ Count("write") = 1
             /\ Len(log) >= 2 /\ log[Len(log)] = "write" /\ log[Len(log) - 1] = "render"
             /\ files[UserPath] = NoFile
        ELSE /\ files[UserPath] = File(Rendered)
             /\ stream = <<>>

C1_Witness ==
    pc = "done" /\ result = "ok" /\ args.mode = "stream" /\ Len(stream) = 1
    /\ stream[1] # <<>>

\* C2: when the render operator runs, the objects linked into the root
\* collection are exactly the mesh, camera and light of the current call,
\* with nothing left over from earlier calls.
C2_OnlyThisCallLinked ==
    pc = "render" => objects = ThisCall

C4_ColorsMustBeNx4 ==
    LET c == args.colors
        ran == LastStep \in {"add_vertex_colors", "add_vertex_colors_and_material"}
    IN  (ran /\ Converts(c)) =>
            IF Len(Shape(c)) = 2 /\ Shape(c) = <<mesh.nverts, 4>>
            THEN /\ LastStep = "add_vertex_colors_and_material"
                 /\ mesh.attr = c.rows
            ELSE result = "AssertionError"

\* C5: the engine set on the scene when the render operator is invoked is the
\* one the renderer argument names.
C5_EngineIsRendererArgument ==
    pc = "render" => render.engine = args.renderer

\* C6: without colors the mesh is linked with no color attribute and no
\* material; with an N x 4 colors input, nested sequence or array, attribute
\* and material are attached before the mesh is linked and the call does not
\* fail at the colors step.
C6_ColorsOptionalEitherForm ==
    LET c == args.colors IN
    /\ (c = None /\ pc = "link") => (mesh.attr = <<>> /\ ~mesh.mat)
    /\ (/\ c # None /\ Converts(c) /\ Len(Shape(c)) = 2
        /\ InLog("mesh_from_tri") /\ mesh # NoObj
        /\ Shape(c) = <<mesh.nverts, 4>>
        /\ pc # "colors" /\ LastStep # "host_raise")
       => (/\ InLog("add_vertex_colors_and_material")
           /\ mesh.attr = c.rows /\ mesh.mat
           /\ (InLog("link_mesh") => mesh \in objects))

\* C7: a call that ends in an input-shape assertion failure has not invoked
\* the render operator, has linked no object of its own into the scene, and
\* has written nothing to the output path or to the stream.
C7_AssertionFailureNoOutput ==
    result = "AssertionError" =>
        /\ ~InLog("render")
        /\ \A o \in objects : o.call # callNo
        /\ mesh \notin objects
        /\ files[UserPath] = NoFile /\ files[TmpPath] = NoFile
        /\ stream = <<>>

C7_Witness ==
    /\ pc = "done" /\ result = "AssertionError" /\ LastStep = "add_vertex_colors"
    /\ mesh.kind = "mesh" /\ args.mode = "stream"

\* C8: a host error raised inside render_tri reaches the caller unchanged in
\* both modes; in stream mode output.write has not been called and the
\* temporary directory is gone.
C8_HostErrorPropagates ==
    LastStep = "host_raise" =>
        /\ pc = "done" /\ result = "HostError"
        /\ ~InLog("write") /\ stream = <<>>
        /\ ~tmpdir /\ files[TmpPath] = NoFile

C8_Witness ==
    /\ LastStep = "host_raise" /\ args.mode = "stream" /\ pc = "done"
    /\ render.filepath = TmpPath /\ LightObj(callNo) \in objects

\* C9: the steps of a call run in program order and the render operator is
\* invoked exactly once, last: when it is invoked the call's mesh, camera and
\* light are linked, scene.camera is the call's camera, and filepath and
\* resolution are the call's output path and resolution arguments.
StepsOf(l) == SelectSeq(l, LAMBDA x : x \notin {"unlink", "write"})

ProgramOrder(colorStep) ==
    <<"cleared", "mesh_from_tri", colorStep, "link_mesh", "camera", "light",
      "settings", "render">>

C9_RenderLastOnFullScene ==
    /\ pc = "render" =>
          /\ ThisCall \subseteq objects /\ mesh.kind = "mesh"
          /\ sceneCamera = CameraObj(callNo)
          /\ render.filepath = Output(args)
          /\ <<render.resolution_x, render.resolution_y>> = args.res
          /\ ~InLog("render")
    /\ result = "ok" =>
          /\ Count("render") = 1
          /\ StepsOf(log) \in {ProgramOrder("no_colors"),
                               ProgramOrder("add_vertex_colors_and_material")}
          /\ files[render.filepath] = File(Rendered) \/ args.mode = "stream"

C9_Witness ==
    /\ pc = "done" /\ result = "ok" /\ args.mode = "stream"
    /\ args.res = <<4, 2>> /\ InLog("add_vertex_colors_and_material")

====
